---- MODULE Spec2Model ----
(***************************************************************************)
(* A model of the logicle transform (Logicle.cpp) and of its lookup-table  *)
(* accelerated variant (FastLogicle.cpp).                                  *)
(*                                                                         *)
(* Doubles are modelled as exact rationals extended with +Inf, -Inf and    *)
(* NaN (the IEEE results of a division by zero), so every statement here   *)
(* is a statement in real arithmetic: rounding error is not modelled.      *)
(***************************************************************************)
EXTENDS Integers, Sequences, FiniteSets, TLC

VARIABLES
    inst,     \* the last construction: arguments and the resulting logicle_params
    fast,     \* the accelerated transform: [bins, lookup]
    fcall,    \* the last call made on the accelerated transform
    eng,      \* an engine's derived parameters (x1, w, a, c, f, taylor ...)
    ecall,    \* the last call made on the engine's inverse
    axis,     \* the last call of axisLabels: its inputs and the labels
    run       \* the iterative solver being executed (solve or scale)

vars == <<inst, fast, fcall, eng, ecall, axis, run>>

(***************************************************************************)
(* Bounds of the model.                                                    *)
(***************************************************************************)
MaxParam == 5      \* W, M, A range over k/2 with |k| <= MaxParam
MaxBins  == 4      \* bins ranges over 0..MaxBins

(***************************************************************************)
(* double: exact rationals n/d (d > 0, lowest terms) plus Inf and NaN.     *)
(***************************************************************************)
Abs(i) == IF i < 0 THEN -i ELSE i

RECURSIVE GCD(_, _)
GCD(a, b) == IF b = 0 THEN a ELSE GCD(b, a % b)

DFin(n, d) ==
    LET s == IF d < 0 THEN -1 ELSE 1
        g == GCD(Abs(n), Abs(d))
    IN  [k |-> "fin", n |-> (s * n) \div g, d |-> (s * d) \div g]

DInt(i) == [k |-> "fin", n |-> i, d |-> 1]
DNaN  == [k |-> "nan",  n |-> 0, d |-> 1]
DPInf == [k |-> "pinf", n |-> 0, d |-> 1]
DNInf == [k |-> "ninf", n |-> 0, d |-> 1]

IsFin(x) == x.k = "fin"
IsNaN(x) == x.k = "nan"

\* sign of a value that is not NaN
Sgn(x) ==
    CASE x.k = "pinf" -> 1
      [] x.k = "ninf" -> -1
      [] OTHER -> IF x.n > 0 THEN 1 ELSE IF x.n < 0 THEN -1 ELSE 0

DSigned(s) == IF s > 0 THEN DPInf ELSE IF s < 0 THEN DNInf ELSE DNaN

DNeg(x) ==
    CASE x.k = "fin"  -> [x EXCEPT !.n = -x.n]
      [] x.k = "pinf" -> DNInf
      [] x.k = "ninf" -> DPInf
      [] OTHER -> DNaN

DAdd(x, y) ==
    CASE IsNaN(x) \/ IsNaN(y) -> DNaN
      [] IsFin(x) /\ IsFin(y) ->
            LET g == GCD(x.d, y.d)
            IN  DFin(x.n * (y.d \div g) + y.n * (x.d \div g), (x.d \div g) * y.d)
      [] IsFin(x) -> y
      [] IsFin(y) -> x
      [] OTHER -> IF x.k = y.k THEN x ELSE DNaN

DSub(x, y) == DAdd(x, DNeg(y))

DMul(x, y) ==
    CASE IsNaN(x) \/ IsNaN(y) -> DNaN
      [] IsFin(x) /\ IsFin(y) ->
            LET g1 == GCD(Abs(x.n), y.d)
                g2 == GCD(Abs(y.n), x.d)
            IN  DFin((x.n \div g1) * (y.n \div g2), (x.d \div g2) * (y.d \div g1))
      [] OTHER -> DSigned(Sgn(x) * Sgn(y))

\* IEEE division; a zero divisor here is always +0 (the result of 1 - 1)
DDiv(x, y) ==
    CASE IsNaN(x) \/ IsNaN(y) -> DNaN
      [] IsFin(x) /\ IsFin(y) ->
            IF y.n = 0 THEN DSigned(Sgn(x))
            ELSE LET g1 == GCD(Abs(x.n), Abs(y.n))
                     g2 == GCD(x.d, y.d)
                 IN  DFin((x.n \div g1) * (y.d \div g2), (x.d \div g2) * (y.n \div g1))
      [] IsFin(x) -> DInt(0)
      [] IsFin(y) -> DSigned(Sgn(x) * (IF Sgn(y) < 0 THEN -1 ELSE 1))
      [] OTHER -> DNaN

\* comparisons are false as soon as one side is NaN
DLt(x, y) ==
    CASE IsNaN(x) \/ IsNaN(y) -> FALSE
      [] IsFin(x) /\ IsFin(y) -> x.n * y.d < y.n * x.d
      [] OTHER -> (x.k = "ninf" /\ y.k # "ninf") \/ (y.k = "pinf" /\ x.k # "pinf")

DEq(x, y) ==
    CASE IsNaN(x) \/ IsNaN(y) -> FALSE
      [] OTHER -> x = y

DLe(x, y) == DLt(x, y) \/ DEq(x, y)
DGt(x, y) == DLt(y, x)

\* floor of a finite value (\div rounds towards minus infinity)
DFloor(x) == DInt(x.n \div x.d)

Half(k) == DFin(k, 2)

(***************************************************************************)
(* Logicle::initialize (Logicle.cpp 59-120): validation, the adjustment of *)
(* A to a bin boundary, and the breakpoints w, x2, x1, x0.                 *)
(***************************************************************************)
TValues == {-1, 0, 1, 1000}
ParamValues == {Half(k) : k \in -MaxParam .. MaxParam}

\* the five checks, in the order of the code; "ok" when all pass
validate_WNotPositive(T, W, M, A) ==
    IF DLe(T, DInt(0)) THEN "T is not positive"
    ELSE IF DLe(W, DInt(0)) THEN "W is negative"
    ELSE IF DLe(M, DInt(0)) THEN "M is not positive"
    ELSE IF DGt(DMul(DInt(2), W), M) THEN "W is too large"
    ELSE IF DGt(DNeg(A), W) \/ DGt(DAdd(A, W), DSub(M, W)) THEN "A is too large"
    ELSE "ok"

validate(T, W, M, A) ==
    IF DLe(T, DInt(0)) THEN "T is not positive"
    ELSE IF DLt(W, DInt(0)) THEN "W is negative"
    ELSE IF DLe(M, DInt(0)) THEN "M is not positive"
    ELSE IF DGt(DMul(DInt(2), W), M) THEN "W is too large"
    ELSE IF DGt(DNeg(A), W) \/ DGt(DAdd(A, W), DSub(M, W)) THEN "A is too large"
    ELSE "ok"

\* zero = floor(zero * bins + .5) / bins, for zero = (W + A) / (M + A)
zeroOnBin(W, M, A, bins) ==
    LET zero == DDiv(DAdd(W, A), DAdd(M, A))
    IN  DDiv(DFloor(DAdd(DMul(zero, DInt(bins)), Half(1))), DInt(bins))

\* A = (M * zero - W) / (1 - zero)
adjustA(W, M, A, bins) ==
    LET zero == zeroOnBin(W, M, A, bins)
    IN  DDiv(DSub(DMul(M, zero), W), DSub(DInt(1), zero))

p_w(W, M, A)  == DDiv(W, DAdd(M, A))
p_x2(M, A)    == DDiv(A, DAdd(M, A))
p_x1(x2, w)   == DAdd(x2, w)
p_x0_3w(x2, w) == DAdd(x2, DMul(DInt(3), w))
p_x0(x2, w)   == DAdd(x2, DMul(DInt(2), w))

Unset == [T |-> DNaN, M |-> DNaN, W |-> DNaN, A |-> DNaN,
          w |-> DNaN, x2 |-> DNaN, x1 |-> DNaN, x0 |-> DNaN]

NoInst == [args |-> [T |-> DNaN, W |-> DNaN, M |-> DNaN, A |-> DNaN, bins |-> 0],
           status |-> "none", reason |-> "", stored |-> {}, p |-> Unset]

\* solveConverges: whether solve(b, w) returns (it always does when w = 0)
initialize(T, W, M, A, bins, solveConverges) ==
    LET args == [T |-> T, W |-> W, M |-> M, A |-> A, bins |-> bins]
        chk  == validate(T, W, M, A)
        A2   == IF bins > 0 THEN adjustA(W, M, A, bins) ELSE A
        w    == p_w(W, M, A2)
        x2   == p_x2(M, A2)
        p    == [T |-> T, M |-> M, W |-> W, A |-> A2,
                 w |-> w, x2 |-> x2, x1 |-> p_x1(x2, w), x0 |-> p_x0(x2, w)]
    IN  IF chk # "ok"
        THEN [args |-> args, status |-> "IllegalParameter", reason |-> chk,
              stored |-> {}, p |-> Unset]
        ELSE IF ~DEq(w, DInt(0)) /\ ~solveConverges
        THEN [args |-> args, status |-> "DidNotConverge",
              reason |-> "exceeded maximum iterations in solve()",
              stored |-> {"T", "M", "W", "A", "w", "x2", "x1", "x0"}, p |-> p]
        ELSE [args |-> args, status |-> "ok", reason |-> "",
              stored |-> {"T", "M", "W", "A", "w", "x2", "x1", "x0"}, p |-> p]

Idle == [op |-> "none"]

\* a transform is constructed once and is immutable afterwards
Construct ==
    /\ inst.status = "none"
    /\ \E bins \in 0 .. MaxBins, t \in TValues, W \in ParamValues,
          M \in ParamValues, A \in ParamValues, conv \in BOOLEAN :
            inst' = initialize(DInt(t), W, M, A, bins, conv)
    /\ UNCHANGED <<fast, fcall, eng, ecall, axis, run>>

InitInit ==
    /\ inst = NoInst
    /\ fast = Idle /\ fcall = Idle /\ eng = Idle /\ ecall = Idle
    /\ axis = Idle /\ run = Idle

NextInit == Construct

SpecInit == InitInit /\ [][NextInit]_vars

Constructed == inst.status = "ok"

\* the claims' own reading of the arguments
ArgViolation(a) ==
    \/ DLe(a.T, DInt(0))
    \/ DLt(a.W, DInt(0))
    \/ DLe(a.M, DInt(0))
    \/ DGt(DMul(DInt(2), a.W), a.M)
    \/ DGt(DNeg(a.A), a.W)
    \/ DGt(DAdd(a.A, a.W), DSub(a.M, a.W))

FirstViolation(a) ==
    CASE DLe(a.T, DInt(0)) -> "T is not positive"
      [] DLt(a.W, DInt(0)) -> "W is negative"
      [] DLe(a.M, DInt(0)) -> "M is not positive"
      [] DGt(DMul(DInt(2), a.W), a.M) -> "W is too large"
      [] OTHER -> "A is too large"

\* C4: construction fails with IllegalParameter iff one of T <= 0, W < 0, M <= 0,
\* 2W > M, -A > W, A+W > M-W holds; the reason reported is that of the first
\* violated check in that order; nothing is stored when a check fails.
C4_Validation ==
    inst.status # "none" =>
        /\ (inst.status = "IllegalParameter") <=> ArgViolation(inst.args)
        /\ inst.status = "IllegalParameter" =>
              /\ inst.reason = FirstViolation(inst.args)
              /\ inst.stored = {}
              /\ inst.p = Unset

\* a construction that violates two checks at once reports the first one
C4_Witness ==
    /\ inst.status = "IllegalParameter"
    /\ inst.reason = "W is negative"
    /\ DLe(inst.args.M, DInt(0))
    /\ DGt(inst.args.T, DInt(0))

\* C7 as stated: 0 <= x2 <= x1 <= x0 <= 1 for every constructed transform
C7_Original ==
    Constructed =>
        /\ DLe(DInt(0), inst.p.x2)
        /\ DLe(inst.p.x2, inst.p.x1)
        /\ DLe(inst.p.x1, inst.p.x0)
        /\ DLe(inst.p.x0, DInt(1))

\* C7 amended: x2 = A/(M+A), x1 = x2 + w, x0 = x2 + 2w; when the stored A is finite
\* x2 <= x1 <= x0 <= 1 and 0 <= x1 hold, and 0 <= x2 holds exactly when A >= 0;
\* when the stored A is not finite (bins = 1 and A = M - 2W) the breakpoints are NaN.
C7_Breakpoints ==
    Constructed =>
        LET p == inst.p IN
        /\ p.x2 = DDiv(p.A, DAdd(p.M, p.A)) \/ (IsNaN(p.x2) /\ ~IsFin(p.A))
        /\ IsFin(p.A) =>
              /\ p.x1 = DAdd(p.x2, p.w)
              /\ p.x0 = DAdd(p.x2, DAdd(p.w, p.w))
              /\ DLe(p.x2, p.x1) /\ DLe(p.x1, p.x0) /\ DLe(p.x0, DInt(1))
              /\ DLe(DInt(0), p.x1)
              /\ DLe(DInt(0), p.x2) <=> DLe(DInt(0), p.A)
        /\ ~IsFin(p.A) =>
              /\ inst.args.bins = 1
              /\ inst.args.A = DSub(inst.args.M, DMul(DInt(2), inst.args.W))
              /\ IsNaN(p.x2) /\ IsNaN(p.x1) /\ IsNaN(p.x0)

\* a transform constructed with a negative A, W > 0 and 3W > M: x2 < 0 <= x1 < x0
C7_Witness ==
    /\ Constructed
    /\ DLt(inst.p.A, DInt(0))
    /\ DLt(inst.p.x2, DInt(0))
    /\ DLt(inst.p.x1, inst.p.x0)
    /\ DGt(DMul(DInt(3), inst.p.W), inst.p.M)

\* C8 as stated: the stored A satisfies -A <= W and A+W <= M-W
C8_StoredAInRange ==
    Constructed =>
        /\ DLe(DNeg(inst.p.A), inst.p.W)
        /\ DLe(DAdd(inst.p.A, inst.p.W), DSub(inst.p.M, inst.p.W))

\* the integer nearest to bins * (W + A) / (M + A), halves rounded up
NearestBin(a) ==
    DFloor(DAdd(DMul(DInt(a.bins), DDiv(DAdd(a.W, a.A), DAdd(a.M, a.A))), Half(1)))

\* C9 as stated: with bins > 0 the adjusted A is finite and x1 = k/bins for the
\* integer k nearest to bins*(W+A)/(M+A), with 0 <= k < bins; with bins = 0 the
\* stored A is the argument A.
C9_ZeroOnBinBoundary ==
    Constructed =>
        LET a == inst.args
            k == NearestBin(a)
        IN  /\ a.bins > 0 =>
                  /\ IsFin(inst.p.A)
                  /\ DEq(inst.p.x1, DDiv(k, DInt(a.bins)))
                  /\ DLe(DInt(0), k) /\ DLt(k, DInt(a.bins))
            /\ a.bins = 0 => inst.p.A = a.A

(***************************************************************************)
(* FastLogicle (FastLogicle.cpp): the table lookup[0..bins] and the calls  *)
(* answered from it.  Raw values are integers; positions are rationals.    *)
(***************************************************************************)
MaxTableBins == 3    \* tables have 1..MaxTableBins bins
MaxValue     == 3    \* table entries range over -MaxValue..MaxValue
MaxPosDen    == 3    \* positions are n/d with 1 <= d <= MaxPosDen

IntMin == -2147483647 - 1
IntMax == 2147483647

\* lookup[i]; sequences are indexed from 1.  A read outside 0..bins is recorded in
\* the call's reads and yields 0 here (C2 shows that no call makes one)
At(f, i) == IF i \in 0 .. f.bins THEN f.lookup[i + 1] ELSE 0

StrictlyIncreasing(t) == \A i \in 1 .. Len(t) - 1 : t[i] < t[i + 1]

\* the tables FastLogicle::initialize can build: samples of a strictly
\* increasing inverse at 0, 1/bins, ..., 1
Tables(bins) ==
    {t \in [1 .. bins + 1 -> -MaxValue .. MaxValue] : StrictlyIncreasing(t)}

Ret(op, arg, v, reads) ==
    [op |-> op, arg |-> arg, status |-> "ret", ret |-> v, reads |-> reads]
Throw(op, arg, reads) ==
    [op |-> op, arg |-> arg, status |-> "IllegalArgument", ret |-> DNaN, reads |-> reads]

\* after the loop: the out-of-range check left out
intScale_exit_nocheck(f, value, lo, hi, reads) ==
    Ret("intScale", DInt(value), DInt(lo - 1), reads)

\* after the loop: lo returned instead of lo - 1
intScale_exit_lo(f, value, lo, hi, reads) ==
    IF hi < 0 \/ lo > f.bins
    THEN Throw("intScale", DInt(value), reads)
    ELSE Ret("intScale", DInt(value), DInt(lo), reads)

\* after the loop: check for out of range, else return lo - 1
intScale_exit(f, value, lo, hi, reads) ==
    IF hi < 0 \/ lo > f.bins
    THEN Throw("intScale", DInt(value), reads)
    ELSE Ret("intScale", DInt(value), DInt(lo - 1), reads)

\* the binary search of intScale; reads collects the indices of lookup read
RECURSIVE intScale_search(_, _, _, _, _)
intScale_search(f, value, lo, hi, reads) ==
    IF lo <= hi
    THEN LET mid == (lo + hi) \div 2
             key == At(f, mid)
             rd  == reads \cup {mid}
         IN  IF value < key THEN intScale_search(f, value, lo, mid - 1, rd)
             ELSE IF value > key THEN intScale_search(f, value, mid + 1, hi, rd)
             ELSE IF mid < f.bins THEN Ret("intScale", DInt(value), DInt(mid), rd)
             ELSE Throw("intScale", DInt(value), rd)
    ELSE intScale_exit(f, value, lo, hi, reads)

intScale(f, value) == intScale_search(f, value, 0, f.bins, {})

FastLogicle_scale(f, value) ==
    LET r == intScale(f, value)
    IN  IF r.status # "ret" THEN Throw("scale", DInt(value), r.reads)
        ELSE LET index == r.ret.n
                 delta == DDiv(DInt(value - At(f, index)),
                               DInt(At(f, index + 1) - At(f, index)))
             IN  Ret("scale", DInt(value),
                     DDiv(DAdd(DInt(index), delta), DInt(f.bins)),
                     r.reads \cup {index, index + 1})

\* (int)floor(x): the conversion of a value outside the range of int is undefined;
\* builds produce INT_MIN or INT_MAX, chosen by cast
toInt(x, cast) == IF IsFin(x) THEN DFloor(x).n ELSE cast

\* index > bins instead of index >= bins
FastLogicle_inverse_gt(f, scale, cast) ==
    LET x     == DMul(scale, DInt(f.bins))
        index == toInt(x, cast)
    IN  IF index < 0 \/ index > f.bins THEN Throw("inverse", scale, {})
        ELSE LET delta == DSub(x, DInt(index))
             IN  Ret("inverse", scale,
                     DAdd(DMul(DSub(DInt(1), delta), DInt(At(f, index))),
                          DMul(delta, DInt(At(f, index + 1)))),
                     {index, index + 1})

FastLogicle_inverse(f, scale, cast) ==
    LET x     == DMul(scale, DInt(f.bins))
        index == toInt(x, cast)
    IN  IF index < 0 \/ index >= f.bins THEN Throw("inverse", scale, {})
        ELSE LET delta == DSub(x, DInt(index))
             IN  Ret("inverse", scale,
                     DAdd(DMul(DSub(DInt(1), delta), DInt(At(f, index))),
                          DMul(delta, DInt(At(f, index + 1)))),
                     {index, index + 1})

FastLogicle_inverse_int(f, index) ==
    IF index < 0 \/ index >= f.bins THEN Throw("inverseInt", DInt(index), {})
    ELSE Ret("inverseInt", DInt(index), DInt(At(f, index)), {index})

Values    == -MaxValue - 1 .. MaxValue + 1
Positions == {DFin(n, d) : n \in -1 .. MaxPosDen + 1, d \in 1 .. MaxPosDen}
                \cup {DPInf, DNInf}

CallIntScale ==
    /\ \E value \in Values : fcall' = intScale(fast, value)
    /\ UNCHANGED <<inst, fast, eng, ecall, axis, run>>

CallScale ==
    /\ \E value \in Values : fcall' = FastLogicle_scale(fast, value)
    /\ UNCHANGED <<inst, fast, eng, ecall, axis, run>>

CallInverse ==
    /\ \E scale \in Positions, cast \in {IntMin, IntMax} :
          fcall' = FastLogicle_inverse(fast, scale, cast)
    /\ UNCHANGED <<inst, fast, eng, ecall, axis, run>>

CallInverseInt ==
    /\ \E index \in -1 .. fast.bins + 1 : fcall' = FastLogicle_inverse_int(fast, index)
    /\ UNCHANGED <<inst, fast, eng, ecall, axis, run>>

InitFast ==
    /\ \E bins \in 1 .. MaxTableBins :
          \E t \in Tables(bins) : fast = [bins |-> bins, lookup |-> t]
    /\ fcall = [op |-> "none", arg |-> DNaN, status |-> "none", ret |-> DNaN, reads |-> {}]
    /\ inst = NoInst /\ eng = Idle /\ ecall = Idle /\ axis = Idle /\ run = Idle

NextFast == CallIntScale \/ CallScale \/ CallInverse \/ CallInverseInt

SpecFast == InitFast /\ [][NextFast]_vars

Lo == fast.lookup[1]
Hi == fast.lookup[fast.bins + 1]

\* C1: for lookup[0] <= value < lookup[bins], intScale returns an index i with
\* 0 <= i < bins and lookup[i] <= value < lookup[i+1]; a value equal to an
\* interior entry lookup[i] returns that i.
C1_IntScaleBin ==
    (fcall.op = "intScale" /\ Lo <= fcall.arg.n /\ fcall.arg.n < Hi) =>
        /\ fcall.status = "ret"
        /\ LET i == fcall.ret.n
           IN  /\ 0 <= i /\ i < fast.bins
               /\ fast.lookup[i + 1] <= fcall.arg.n
               /\ fcall.arg.n < fast.lookup[i + 2]
        /\ \A i \in 0 .. fast.bins - 1 :
              fast.lookup[i + 1] = fcall.arg.n => fcall.ret = DInt(i)

\* a value strictly inside a bin that is neither the first nor the last
C1_Witness ==
    /\ fcall.op = "intScale" /\ fcall.status = "ret"
    /\ fast.bins >= 3
    /\ fcall.ret.n = 1
    /\ fast.lookup[2] < fcall.arg.n /\ fcall.arg.n < fast.lookup[3]

\* C2: intScale and scale fail with IllegalArgument for a value below lookup[0],
\* above lookup[bins] or equal to lookup[bins], and return nothing then; scale
\* reads lookup only at indices 0..bins.
C2_OutOfRange ==
    /\ (fcall.op \in {"intScale", "scale"}
            /\ (fcall.arg.n < Lo \/ fcall.arg.n >= Hi)) =>
          (fcall.status = "IllegalArgument" /\ fcall.ret = DNaN)
    /\ fcall.op = "scale" => fcall.reads \subseteq 0 .. fast.bins

\* scale called with the upper sentinel lookup[bins] itself
C2_Witness ==
    /\ fcall.op = "scale" /\ fcall.status = "IllegalArgument"
    /\ fcall.arg.n = Hi
    /\ fast.bins >= 2

InUnit(s) == DLe(DInt(0), s) /\ DLt(s, DInt(1))

\* C3: inverse(position) fails with IllegalArgument exactly when position is
\* outside [0,1); inside, it returns (1-delta)*lookup[index] + delta*lookup[index+1]
\* for index = floor(position*bins), 0 <= index < bins, delta = position*bins - index;
\* at position = i/bins the result is lookup[i].
C3_InverseDomain ==
    fcall.op = "inverse" =>
        /\ fcall.status = "IllegalArgument" <=> ~InUnit(fcall.arg)
        /\ InUnit(fcall.arg) =>
              LET x     == DMul(fcall.arg, DInt(fast.bins))
                  index == x.n \div x.d
                  delta == DSub(x, DInt(index))
              IN  /\ 0 <= index /\ index < fast.bins
                  /\ fcall.ret = DAdd(DMul(DSub(DInt(1), delta), DInt(fast.lookup[index + 1])),
                                      DMul(delta, DInt(fast.lookup[index + 2])))
        /\ \A i \in 0 .. fast.bins - 1 :
              fcall.arg = DFin(i, fast.bins) =>
                  /\ fcall.ret = DInt(fast.lookup[i + 1])
                  /\ fcall.ret = FastLogicle_inverse_int(fast, i).ret

\* an interior bin boundary, and a position strictly inside the last bin
C3_Witness ==
    /\ fcall.op = "inverse" /\ fcall.status = "ret"
    /\ fast.bins = 3
    /\ fcall.arg = DFin(2, 3)
    /\ fcall.ret = DInt(fast.lookup[3])

(***************************************************************************)
(* The two iterative solvers, Logicle::solve and Logicle::scale, as step   *)
(* machines.  The floating-point tests that end an iteration are taken     *)
(* nondeterministically: every exit of the loop body can be tried at every *)
(* iteration.                                                              *)
(***************************************************************************)
SolveLoopEnd == 20     \* for (int i = 1; i < 20; ++i)
ScaleLoopEnd == 10     \* for (int i = 0; i < 10; ++i)

NotRunning == [fn |-> "none", pc |-> "idle", i |-> 0, iters |-> 0,
               outcome |-> "none", ret |-> "", step |-> "", negative |-> FALSE]

\* the loop of solve() falls through: returns the last d instead of throwing
solve_exhausted_returns(r) ==
    [r EXCEPT !.pc = "done", !.outcome = "ret", !.ret = "d", !.step = "exhausted"]

\* throw DidNotConverge("exceeded maximum iterations in solve()")
solve_exhausted(r) ==
    [r EXCEPT !.pc = "done", !.outcome = "DidNotConverge", !.ret = "", !.step = "exhausted"]

\* throw DidNotConverge("scale() didn't converge")
scale_exhausted(r) ==
    [r EXCEPT !.pc = "done", !.outcome = "DidNotConverge", !.ret = "", !.step = "exhausted"]

\* the exits of one iteration of solve(): the bisection or the Newton step left d
\* unchanged, the step is below the tolerance, f is zero or did not change
SolveExits == {"bisect: d == d_lo", "newton: d == t", "bisect: |delta| < tolerance",
               "newton: |delta| < tolerance", "bisect: f == 0 || f == last_f",
               "newton: f == 0 || f == last_f"}

SolveCall ==
    /\ run.pc = "idle"
    /\ \E wIsZero \in BOOLEAN :
          run' = IF wIsZero
                 THEN [NotRunning EXCEPT !.fn = "solve", !.pc = "done",
                                         !.outcome = "ret", !.ret = "b", !.step = "w == 0"]
                 ELSE [NotRunning EXCEPT !.fn = "solve", !.pc = "loop", !.i = 1]
    /\ UNCHANGED <<inst, fast, fcall, eng, ecall, axis>>

\* one iteration of the loop of solve(): it returns d, or updates the bracket
SolveIterate ==
    /\ run.fn = "solve" /\ run.pc = "loop" /\ run.i < SolveLoopEnd
    /\ \/ \E e \in SolveExits :
            run' = [run EXCEPT !.pc = "done", !.outcome = "ret", !.ret = "d",
                               !.step = e, !.iters = @ + 1]
       \/ \E s \in {"bisect", "newton"} :
            run' = [run EXCEPT !.i = @ + 1, !.iters = @ + 1, !.step = s]
    /\ UNCHANGED <<inst, fast, fcall, eng, ecall, axis>>

SolveExhaust ==
    /\ run.fn = "solve" /\ run.pc = "loop" /\ ~(run.i < SolveLoopEnd)
    /\ run' = solve_exhausted(run)
    /\ UNCHANGED <<inst, fast, fcall, eng, ecall, axis>>

ScaleCall ==
    /\ run.pc = "idle"
    /\ \E sign \in {-1, 0, 1} :
          run' = IF sign = 0
                 THEN [NotRunning EXCEPT !.fn = "scale", !.pc = "done",
                                         !.outcome = "ret", !.ret = "x1", !.step = "value == 0"]
                 ELSE [NotRunning EXCEPT !.fn = "scale", !.pc = "loop", !.i = 0,
                                         !.negative = (sign < 0)]
    /\ UNCHANGED <<inst, fast, fcall, eng, ecall, axis>>

\* one Halley iteration of scale(): it returns when |delta| < tolerance
ScaleIterate ==
    /\ run.fn = "scale" /\ run.pc = "loop" /\ run.i < ScaleLoopEnd
    /\ \/ run' = [run EXCEPT !.pc = "done", !.outcome = "ret",
                             !.ret = IF run.negative THEN "2 * x1 - x" ELSE "x",
                             !.step = "|delta| < tolerance", !.iters = @ + 1]
       \/ run' = [run EXCEPT !.i = @ + 1, !.iters = @ + 1, !.step = "halley"]
    /\ UNCHANGED <<inst, fast, fcall, eng, ecall, axis>>

ScaleExhaust ==
    /\ run.fn = "scale" /\ run.pc = "loop" /\ ~(run.i < ScaleLoopEnd)
    /\ run' = scale_exhausted(run)
    /\ UNCHANGED <<inst, fast, fcall, eng, ecall, axis>>

InitSolve ==
    /\ run = NotRunning
    /\ inst = NoInst /\ fast = Idle /\ fcall = Idle /\ eng = Idle /\ ecall = Idle
    /\ axis = Idle

NextSolve ==
    \/ SolveCall \/ SolveIterate \/ SolveExhaust
    \/ ScaleCall \/ ScaleIterate \/ ScaleExhaust

\* a call that has started keeps executing until it returns or throws
SpecSolve == InitSolve /\ [][NextSolve]_vars /\ WF_vars(NextSolve)

ConvergenceTests == SolveExits \cup {"|delta| < tolerance"}

C10_Bounded ==
    /\ run.fn = "solve" => run.iters <= 20
    /\ run.fn = "scale" => run.iters <= 10
    /\ (run.pc = "done" /\ run.step = "w == 0") =>
          (run.fn = "solve" /\ run.iters = 0 /\ run.outcome = "ret" /\ run.ret = "b")
    /\ (run.pc = "done" /\ run.step = "value == 0") =>
          (run.fn = "scale" /\ run.iters = 0 /\ run.outcome = "ret" /\ run.ret = "x1")
    /\ (run.pc = "done" /\ run.outcome = "ret" /\ run.iters > 0) =>
          run.step \in ConvergenceTests
    /\ (run.pc = "done" /\ run.step = "exhausted") => run.outcome = "DidNotConverge"
    /\ (run.pc = "done" /\ run.outcome = "DidNotConverge") =>
          /\ run.step = "exhausted"
          /\ run.iters = (IF run.fn = "solve" THEN SolveLoopEnd - 1 ELSE ScaleLoopEnd)

\* C10: both solvers terminate: solve returns b with no iteration when w = 0 and
\* runs at most 20 iterations otherwise; scale returns x1 with no iteration for
\* value 0 and runs at most 10 Halley iterations otherwise; a call whose budget is
\* exhausted ends with DidNotConverge, and a value is returned only by a
\* convergence test (or by the immediate return).
C10_SolversTerminate ==
    /\ []C10_Bounded
    /\ (run.pc = "loop") ~> (run.pc = "done")

\* solve() has used up its iterations and thrown DidNotConverge
C10_Witness ==
    /\ run.fn = "solve" /\ run.pc = "done"
    /\ run.outcome = "DidNotConverge"
    /\ run.iters = 19

(***************************************************************************)
(* The engine's inverse (Logicle.cpp 227-237, 297-318).  Positions are     *)
(* measured in steps of a grid: position 1 is eng.one steps, x1 and w are  *)
(* whole numbers of steps.  exp(b * step) and exp(d * step) are the        *)
(* numbers eng.EB and eng.ED, so that exp(b * scale) is EB^scale exactly.  *)
(***************************************************************************)
MaxGrid == 6         \* position 1 is 2..MaxGrid steps
MaxCoef == 2         \* Taylor coefficients range over 0..MaxCoef
MaxOutside == 2      \* inverse is called from -MaxOutside to one + MaxOutside

TAYLOR_LENGTH == 16

RECURSIVE Pow(_, _)
Pow(b, n) == IF n = 0 THEN 1 ELSE b * Pow(b, n - 1)

\* a, c and f from b, d, x0, x1 and T (initialize, lines 99-103)
derive(one, x1, w, EB, ED, T) ==
    LET x0   == x1 + w
        c_a  == DInt(Pow(EB, x0) * Pow(ED, x0))
        mf_a == DSub(DInt(Pow(EB, x1)), DDiv(c_a, DInt(Pow(ED, x1))))
        a    == DDiv(DInt(T), DSub(DSub(DInt(Pow(EB, one)), mf_a),
                                   DDiv(c_a, DInt(Pow(ED, one)))))
    IN  [a |-> a, c |-> DMul(c_a, a), f |-> DMul(DNeg(mf_a), a)]

\* the coefficients of the series: taylor[1] is set to 0; the others are sums of
\* products of a, c, b and d, here the numbers p (even index) and q (odd index)
Taylor(p, q) ==
    [i \in 1 .. TAYLOR_LENGTH |-> IF i = 2 THEN 0 ELSE IF i % 2 = 1 THEN p ELSE q]

\* taylor[i], C indices
TaylorAt(e, i) == e.taylor[i + 1]

\* for (int i = TAYLOR_LENGTH - 2; i >= 2; --i) sum = (sum + taylor[i]) * x
RECURSIVE series_loop(_, _, _, _)
series_loop(e, x, i, sum) ==
    IF i >= 2 THEN series_loop(e, x, i - 1, (sum + TaylorAt(e, i)) * x) ELSE sum

seriesBiexponential(e, scale) ==
    LET x   == scale - e.x1
        sum == series_loop(e, x, TAYLOR_LENGTH - 2, TaylorAt(e, TAYLOR_LENGTH - 1) * x)
    IN  DInt((sum * x + TaylorAt(e, 0)) * x)

\* the biexponential on the positive branch: the series below xTaylor = x1 + w/4,
\* (a * exp(b * scale) + f) - c / exp(d * scale) from there on
biexponential(e, scale) ==
    IF 4 * scale < 4 * e.x1 + e.w
    THEN seriesBiexponential(e, scale)
    ELSE DSub(DAdd(DMul(e.a, DInt(Pow(e.EB, scale))), e.f),
              DDiv(e.c, DInt(Pow(e.ED, scale))))

\* the sign is not restored on the reflected branch
Logicle_inverse_unsigned(e, scale) ==
    LET negative == scale < e.x1
    IN  biexponential(e, IF negative THEN 2 * e.x1 - scale ELSE scale)

Logicle_inverse(e, scale) ==
    LET negative == scale < e.x1
        inverse  == biexponential(e, IF negative THEN 2 * e.x1 - scale ELSE scale)
    IN  IF negative THEN DNeg(inverse) ELSE inverse

\* the parameters initialize can leave: 0 <= x1 <= 1/2 (0 <= A + W <= M - W),
\* x0 = x1 + w <= 1, d = b when w = 0 (solve returns b) and 0 < d < b otherwise
EngineParams ==
    {e \in [one : 2 .. MaxGrid, x1 : 0 .. MaxGrid, w : 0 .. MaxGrid,
            EB : {2, 3}, ED : {2, 3}, p : 1 .. MaxCoef, q : 0 .. MaxCoef] :
        /\ e.x1 + e.w <= e.one
        /\ 2 * e.x1 <= e.one
        /\ IF e.w = 0 THEN e.ED = e.EB ELSE e.ED < e.EB}

Engine(e) ==
    LET acf == derive(e.one, e.x1, e.w, e.EB, e.ED, 1)
    IN  [one |-> e.one, x1 |-> e.x1, w |-> e.w, EB |-> e.EB, ED |-> e.ED, T |-> 1,
         a |-> acf.a, c |-> acf.c, f |-> acf.f, taylor |-> Taylor(e.p, e.q)]

NoCall == [op |-> "none", arg |-> 0, ret |-> DNaN]

InverseCall ==
    /\ \E scale \in -MaxOutside .. eng.one + MaxOutside :
          ecall' = [op |-> "inverse", arg |-> scale, ret |-> Logicle_inverse(eng, scale)]
    /\ UNCHANGED <<inst, fast, fcall, eng, axis, run>>

InitEngine ==
    /\ \E e \in EngineParams : eng = Engine(e)
    /\ ecall = NoCall
    /\ inst = NoInst /\ fast = Idle /\ fcall = Idle /\ axis = Idle /\ run = Idle

NextEngine == InverseCall

SpecEngine == InitEngine /\ [][NextEngine]_vars

\* C5: inverse(2*x1 - s) = -inverse(s) for every position s; a position below x1
\* is reflected about x1, evaluated on the positive branch and negated; inverse(x1) = 0.
C5_Symmetry ==
    ecall.op = "inverse" =>
        /\ Logicle_inverse(eng, 2 * eng.x1 - ecall.arg) = DNeg(ecall.ret)
        /\ ecall.arg < eng.x1 =>
              ecall.ret = DNeg(biexponential(eng, 2 * eng.x1 - ecall.arg))
        /\ ecall.arg = eng.x1 => ecall.ret = DInt(0)

\* a position above xTaylor, whose mirror image lies below position 0
C5_Witness ==
    /\ ecall.op = "inverse"
    /\ eng.w > 0 /\ eng.x1 > 0
    /\ 4 * ecall.arg >= 4 * eng.x1 + eng.w
    /\ 2 * eng.x1 - ecall.arg < 0
    /\ DGt(ecall.ret, DInt(0))

(***************************************************************************)
(* Logicle::axisLabels (Logicle.cpp 325-367).  T, the bottom of the scale  *)
(* B = inverse(0) and the labels are powers of ten and are held by their   *)
(* decimal logarithms, multiples of 1/2: log(v) / LN_10 is then exact, and *)
(* x *= 10 adds 1.                                                         *)
(***************************************************************************)
MaxLog == 8          \* logarithms range over k/2 with |k| <= MaxLog

DCeil(x) == DNeg(DFloor(DNeg(x)))

LogValues == {Half(k) : k \in -MaxLog .. MaxLog}
Decades   == {Half(k) : k \in 0 .. MaxLog}

\* a label: its sign and the decimal logarithm of its magnitude; 0 is ZeroLabel,
\* which is also what resize() fills a new element with
ZeroLabel == [sign |-> 0, lg |-> DInt(0)]
PosLabel(lg) == [sign |-> 1, lg |-> lg]
NegLabel(lg) == [sign |-> -1, lg |-> lg]

\* label[i] = v; a write past the end of the vector is recorded in oob
SetLabel(st, i, v) ==
    IF i \in 0 .. Len(st.label) - 1
    THEN [st EXCEPT !.label[i + 1] = v]
    ELSE [st EXCEPT !.oob = TRUE]

\* for (int i = 1; i <= nn; ++i) { label[nn - i] = -x; label[nn + i] = x; x *= 10; }
RECURSIVE fill_both(_, _, _)
fill_both(st, nn, i) ==
    IF i <= nn
    THEN LET s1 == SetLabel(st, nn - i, NegLabel(st.x))
             s2 == SetLabel(s1, nn + i, PosLabel(st.x))
         IN  fill_both([s2 EXCEPT !.x = DAdd(@, DInt(1))], nn, i + 1)
    ELSE st

\* for (int i = nn + 1; i <= np; ++i) { label[nn + i] = x; x *= 10; }
RECURSIVE fill_positive(_, _, _, _)
fill_positive(st, nn, np, i) ==
    IF i <= np
    THEN LET s1 == SetLabel(st, nn + i, PosLabel(st.x))
         IN  fill_positive([s1 EXCEPT !.x = DAdd(@, DInt(1))], nn, np, i + 1)
    ELSE st

\* number of positive labels; xAboveT: x > p->T
axis_np(lgT, log10x, xAboveT) ==
    IF xAboveT THEN 1 ELSE DFloor(DSub(lgT, log10x)).n + 1

\* the + 1 left out
axis_nn_short(lgT, log10x, lgx, BIsZero, lgB) ==
    IF BIsZero \/ DGt(lgx, lgB) THEN 0
    ELSE IF lgx = lgT THEN 1
    ELSE DFloor(DSub(lgB, log10x)).n

\* number of negative labels; BIsZero: inverse(0) = 0, else inverse(0) = -10^lgB
axis_nn(lgT, log10x, lgx, BIsZero, lgB) ==
    IF BIsZero \/ DGt(lgx, lgB) THEN 0
    ELSE IF lgx = lgT THEN 1
    ELSE DFloor(DSub(lgB, log10x)).n + 1

\* pd = M - 2W
axisLabels(lgT, pd, BIsZero, lgB) ==
    LET log10x  == DCeil(DSub(lgT, pd))
        xAboveT == DGt(log10x, lgT)
        lgx     == IF xAboveT THEN lgT ELSE log10x
        np      == axis_np(lgT, log10x, xAboveT)
        nn      == axis_nn(lgT, log10x, lgx, BIsZero, lgB)
        st0     == [label |-> [j \in 1 .. nn + np + 1 |-> ZeroLabel], x |-> lgx, oob |-> FALSE]
        st1     == SetLabel(st0, nn, ZeroLabel)
        st2     == fill_positive(fill_both(st1, nn, 1), nn, np, nn + 1)
    IN  [op |-> "axisLabels", lgT |-> lgT, pd |-> pd, BIsZero |-> BIsZero, lgB |-> lgB,
         nn |-> nn, np |-> np, label |-> st2.label, oob |-> st2.oob]

AxisLabelsCall ==
    /\ axis.op = "none"
    /\ \E lgT \in LogValues, pd \in Decades, BIsZero \in BOOLEAN, lgB \in LogValues :
          /\ BIsZero => lgB = DInt(0)
          /\ axis' = axisLabels(lgT, pd, BIsZero, lgB)
    /\ UNCHANGED <<inst, fast, fcall, eng, ecall, run>>

InitAxis ==
    /\ axis = Idle
    /\ inst = NoInst /\ fast = Idle /\ fcall = Idle /\ eng = Idle /\ ecall = Idle
    /\ run = Idle

NextAxis == AxisLabelsCall

SpecAxis == InitAxis /\ [][NextAxis]_vars

Labelled == axis.op = "axisLabels"

Zeros     == {j \in 1 .. Len(axis.label) : axis.label[j].sign = 0}
Negatives == {j \in 1 .. Len(axis.label) : axis.label[j].sign < 0}
Positives == {j \in 1 .. Len(axis.label) : axis.label[j].sign > 0}

\* C6 as stated: exactly one zero entry, with as many negative labels before it as
\* positive labels after it
C6_Original ==
    (Labelled /\ ~axis.oob) =>
        /\ Cardinality(Zeros) = 1
        /\ \A z \in Zeros :
              Cardinality({j \in Negatives : j < z}) = Cardinality({j \in Positives : j > z})

\* C6 amended: the labels hold exactly one zero entry, at index nn, after nn negative
\* and before np positive labels; the labels are successive decades, the positive
\* ones end in the last decade not above T, the negative ones mirror the first nn
\* positive ones and, when there are several, end in the last decade not below
\* B = inverse(0); nn <= np when -B <= T, and nn and np differ in general.
C6_Labels ==
    Labelled =>
        LET nn == axis.nn
            np == axis.np
            l  == axis.label
        IN  /\ (axis.BIsZero \/ DLe(axis.lgB, axis.lgT)) => (nn <= np /\ ~axis.oob)
            /\ axis.oob <=> nn > np
            /\ ~axis.oob =>
                  /\ Len(l) = nn + np + 1
                  /\ Zeros = {nn + 1}
                  /\ Negatives = 1 .. nn
                  /\ Positives = nn + 2 .. nn + np + 1
                  /\ np >= 1
                  /\ \A i \in 1 .. nn : l[nn + 1 - i].lg = l[nn + 1 + i].lg
                  /\ \A i \in 1 .. np - 1 :
                        l[nn + 1 + i + 1].lg = DAdd(l[nn + 1 + i].lg, DInt(1))
                  /\ DLe(l[nn + np + 1].lg, axis.lgT)
                  /\ DGt(DAdd(l[nn + np + 1].lg, DInt(1)), axis.lgT)
                  /\ nn > 0 => DLe(l[1].lg, axis.lgB)
                  /\ nn > 1 => DGt(DAdd(l[1].lg, DInt(1)), axis.lgB)

\* T = 10000, M - 2W = 2.5 and inverse(0) near -10^1.5 (W = 1, M = 4.5, A = 0): the
\* labels are 0, 100, 1000, 10000
C6_Witness ==
    /\ Labelled /\ ~axis.oob
    /\ axis.lgT = DInt(4) /\ axis.pd = Half(5) /\ ~axis.BIsZero /\ axis.lgB = Half(3)
    /\ axis.label = <<ZeroLabel, PosLabel(DInt(2)), PosLabel(DInt(3)), PosLabel(DInt(4))>>

====
